---- MODULE Spec2Model ----
(***************************************************************************)
(* Model of ping_graph_gui (src/src/main.rs): a background sampler thread  *)
(* that snapshots the target address under a read/write lock, resolves it, *)
(* probes it, sends one f64 per cycle over an mpsc channel and records the *)
(* outcome in the shared error field; and the egui consumer                *)
(* (PingApp::update) that edits the address, resets the series, drains the *)
(* channel and recomputes the statistics.                                  *)
(*                                                                         *)
(* Representation choices:                                                 *)
(*  - a String is a sequence of fragments; "" is the empty sequence <<>>;  *)
(*    format! is concatenation of fragments.  The address is a sequence of *)
(*    two fragments (its two halves), copied half by half, so that a copy  *)
(*    overlapping a write would be visible as a mixed value.               *)
(*  - an f64 is an integer number of milliseconds; NAN, INFINITY and       *)
(*    NEG_INFINITY are integers outside the range of the measured values;  *)
(*    every comparison goes through FLt/FGt, which are false on NAN.       *)
(*  - total_ping / count is kept as the exact fraction <<num, den>> in     *)
(*    lowest terms.                                                        *)
(***************************************************************************)
EXTENDS Integers, Sequences, FiniteSets, TLC

\* ------------------------------------------------------------------ bounds
\* Number of sampler cycles explored (the loop itself is unbounded).
MaxCycles == 2
\* Longest series drawn as input of calculate_ping_stats in SpecStats.
MaxLen == 3
\* Number of edits of the address field explored (the user may edit forever).
MaxEdits == 1

\* ------------------------------------------------------- program constants
NAN == -1
INFINITY == 1000000
NEG_INFINITY == -1000000
SuccessDelay == 1
FailureDelay == 2

\* --------------------------------------------------------------- strings
Str(a) == <<a, a>>
EmptyString == <<>>
DefaultAddress == "8.8.8.8"
\* Addresses the user can type into the text field.
Addresses == {"8.8.8.8", "1.1.1.1", "not a real host", "example.invalid",
              "e-acute x 40"}
\* Strings that to_socket_addrs parses as an IP literal without a lookup.
IpLiterals == {Str("8.8.8.8"), Str("1.1.1.1")}
\* Strings that are well-formed host names, handed to the system resolver.
HostNames == {Str("example.invalid")}

\* ------------------------------------------------------ environment inputs
\* Time spent in to_socket_addrs and in ping, in milliseconds.
ResolveTimes == {0, 5}
PingTimes == {10, 20}
\* Outcomes of (address, 0).to_socket_addrs(): Err, Ok with an empty
\* iterator, Ok with a first element.  An IP literal always yields itself;
\* the lookup of a host name can end in any of the three; any other string
\* makes the lookup fail with Err.
ResolveOutcomes(s) ==
  IF s \in IpLiterals THEN {"some"}
  ELSE IF s \in HostNames THEN {"err", "none", "some"}
  ELSE {"err"}
ResolveError == "failed to lookup address information: Name or service not known"
PingError == "timed out"

\* ---------------------------------------------------------- bytes of a String
\* The characters of a fragment: n characters of w bytes each.  An address is
\* two fragments of the same name: its first and its second half.
FragLayout(f, second) ==
  CASE f = "Invalid address: " -> [n |-> 17, w |-> 1]
    [] f = ". Error: " -> [n |-> 9, w |-> 1]
    [] f = "Could not resolve address: " -> [n |-> 27, w |-> 1]
    [] f = "Ping failed: " -> [n |-> 13, w |-> 1]
    [] f = ResolveError -> [n |-> 63, w |-> 1]
    [] f = PingError -> [n |-> 9, w |-> 1]
    [] f \in {"8.8.8.8", "1.1.1.1"} -> [n |-> IF second THEN 3 ELSE 4, w |-> 1]
    [] f \in {"not a real host", "example.invalid"} ->
         [n |-> IF second THEN 7 ELSE 8, w |-> 1]
    [] f = "e-acute x 40" -> [n |-> 20, w |-> 2]
IsSecondHalf(s, i) == i > 1 /\ s[i] = s[i - 1]
FragBytes(s, i) ==
  LET L == FragLayout(s[i], IsSecondHalf(s, i)) IN L.n * L.w
RECURSIVE OffsetOf(_, _)
\* The byte offset at which fragment i of s starts (i may be Len(s) + 1).
OffsetOf(s, i) == IF i <= 1 THEN 0 ELSE OffsetOf(s, i - 1) + FragBytes(s, i - 1)
\* String::len
ByteLen(s) == OffsetOf(s, Len(s) + 1)
\* str::is_char_boundary
IsCharBoundary(s, k) ==
  \/ k = 0
  \/ k = ByteLen(s)
  \/ \E i \in 1..Len(s) :
        /\ OffsetOf(s, i) <= k
        /\ k < OffsetOf(s, i + 1)
        /\ (k - OffsetOf(s, i)) % FragLayout(s[i], IsSecondHalf(s, i)).w = 0
\* A string being displayed: the first `bytes` bytes of `text`.
Full(s) == [text |-> s, bytes |-> ByteLen(s)]
NoDisplay == [text |-> <<>>, bytes |-> 0]
\* The outcome of a call that panicked instead of returning a string.
PanicResult == [text |-> <<>>, bytes |-> -1]
Panicked(d) == d.bytes < 0
\* String::truncate: no effect beyond the length, a panic off a boundary.
Truncate(d, new_len) ==
  IF new_len <= d.bytes
  THEN IF IsCharBoundary(d.text, new_len)
       THEN [text |-> d.text, bytes |-> new_len]
       ELSE PanicResult
  ELSE d
\* line 78: err.truncate(90)
TruncateAt == 90

VARIABLES
  shared_data,         \* PingSharedState behind the RwLock: [address, error]
  lock,                \* RwLock state: [readers, writer]
  chan,                \* mpsc channel contents (tx -> rx)
  \* sampler thread
  s_pc, address, elapsed, sock_addr, branch, success, sleep_secs, slept,
  \* consumer (PingApp)
  c_pc, c_address, err, ping_times, stats, ping_times_updated, loss_count,
  total_pings,
  \* history variables
  sent,                \* every value passed to tx.send, in order
  received,            \* every value returned by rx.try_recv, in order
  cycle_base,          \* Len(sent) when the current cycle read the address
  cycle_addr,          \* shared address when the current cycle took the read guard
  last_write,          \* the address of the consumer's most recent write
  probe_ms,            \* time the current cycle's ping call took, when it returned Ok
  error_of,            \* number of the cycle that last wrote the error field (0: none)
  edits                \* number of edits of the address field so far

vars == <<shared_data, lock, chan, s_pc, address, elapsed, sock_addr, branch,
          success, sleep_secs, slept, c_pc, c_address, err, ping_times, stats,
          ping_times_updated, loss_count, total_pings, sent, received,
          cycle_base, cycle_addr, last_write, probe_ms, error_of, edits>>

samplerVars == <<s_pc, address, elapsed, sock_addr, branch, success, sleep_secs,
                 slept>>
consumerVars == <<c_pc, c_address, err, ping_times, stats, ping_times_updated,
                  loss_count, total_pings>>
historyVars == <<sent, received, cycle_base, cycle_addr, last_write, probe_ms,
                 error_of, edits>>

\* ------------------------------------------------------------ std::sync::RwLock
NoWriter == "none"
CanRead(l, t) == l.writer = NoWriter
CanWrite(l, t) == l.writer = NoWriter /\ l.readers = {}
AcquireRead(l, t) == [l EXCEPT !.readers = @ \cup {t}]
AcquireWrite(l, t) == [l EXCEPT !.writer = t]
Release(l, t) ==
  [readers |-> l.readers \ {t},
   writer |-> IF l.writer = t THEN NoWriter ELSE l.writer]
Holds(l, t) == t \in l.readers \/ l.writer = t

\* --------------------------------------------------------------- f64
IsNan(x) == x = NAN
FLt(a, b) == ~IsNan(a) /\ ~IsNan(b) /\ a < b
FGt(a, b) == ~IsNan(a) /\ ~IsNan(b) /\ a > b
FAdd(a, b) == IF IsNan(a) \/ IsNan(b) THEN NAN ELSE a + b
RECURSIVE Gcd(_, _)
Gcd(a, b) == IF b = 0 THEN a ELSE Gcd(b, a % b)
\* total_ping / count as f64, kept exact: the fraction in lowest terms.
FDiv(a, b) ==
  IF IsNan(a) THEN <<NAN, 1>> ELSE <<a \div Gcd(a, b), b \div Gcd(a, b)>>

\* ---------------------------------------------------- calculate_ping_stats
None == <<>>
Some(x) == x
StatsInit == [min_ping |-> INFINITY, max_ping |-> NEG_INFINITY,
              total_ping |-> 0, count |-> 0]
\* Variant without the `if ping.is_nan() { continue; }` of lines 241-243.
StatsStep_NoSkip(acc, ping) ==
  [min_ping |-> IF FLt(ping, acc.min_ping) THEN ping ELSE acc.min_ping,
   max_ping |-> IF FGt(ping, acc.max_ping) THEN ping ELSE acc.max_ping,
   total_ping |-> FAdd(acc.total_ping, ping),
   count |-> acc.count + 1]
\* Variant that chains the two comparisons of lines 244-249 with `else if`.
StatsStep_ElseIf(acc, ping) ==
  IF IsNan(ping) THEN acc
  ELSE [min_ping |-> IF FLt(ping, acc.min_ping) THEN ping ELSE acc.min_ping,
        max_ping |-> IF ~FLt(ping, acc.min_ping) /\ FGt(ping, acc.max_ping)
                     THEN ping ELSE acc.max_ping,
        total_ping |-> FAdd(acc.total_ping, ping),
        count |-> acc.count + 1]
\* One iteration of `for &[_time, ping] in ping_times.iter()`.
StatsStep(acc, ping) ==
  IF IsNan(ping) THEN acc
  ELSE [min_ping |-> IF FLt(ping, acc.min_ping) THEN ping ELSE acc.min_ping,
        max_ping |-> IF FGt(ping, acc.max_ping) THEN ping ELSE acc.max_ping,
        total_ping |-> FAdd(acc.total_ping, ping),
        count |-> acc.count + 1]
RECURSIVE StatsLoop(_, _, _)
StatsLoop(pt, i, acc) ==
  IF i > Len(pt) THEN acc ELSE StatsLoop(pt, i + 1, StatsStep(acc, pt[i][2]))
calculate_ping_stats(pt) ==
  IF pt = <<>> THEN None
  ELSE LET acc == StatsLoop(pt, 1, StatsInit)
       IN IF acc.count = 0 THEN None
          ELSE Some(<<acc.min_ping, acc.max_ping,
                      FDiv(acc.total_ping, acc.count)>>)

\* ------------------------------------------------------------------- Init
Sampler == "sampler"
Consumer == "consumer"
\* The process runs until the UI thread panics; its threads end with it.
Alive == c_pc # "panicked"

Init ==
  /\ shared_data = [address |-> Str(DefaultAddress), error |-> EmptyString]
  /\ lock = [readers |-> {}, writer |-> NoWriter]
  /\ chan = <<>>
  /\ s_pc = "lock_read"
  /\ address = EmptyString
  /\ elapsed = 0
  /\ sock_addr = <<>>
  /\ branch = "none"
  /\ success = FALSE
  /\ sleep_secs = 0
  /\ slept = 0
  /\ c_pc = "read_addr_lock"
  /\ c_address = EmptyString
  /\ err = NoDisplay
  /\ ping_times = <<>>
  /\ stats = None
  /\ ping_times_updated = FALSE
  /\ loss_count = 0
  /\ total_pings = 0
  /\ sent = <<>>
  /\ received = <<>>
  /\ cycle_base = 0
  /\ cycle_addr = Str(DefaultAddress)
  /\ last_write = Str(DefaultAddress)
  /\ probe_ms = 0
  /\ error_of = 0
  /\ edits = 0

\* ---------------------------------------------------------- sampler thread
\* line 176: shared_ping_data_for_thread.read().unwrap()
SamplerLockRead ==
  /\ s_pc = "lock_read"
  /\ Alive
  /\ Len(sent) < MaxCycles
  /\ CanRead(lock, Sampler)
  /\ lock' = AcquireRead(lock, Sampler)
  /\ s_pc' = "clone1"
  /\ cycle_base' = Len(sent)
  /\ cycle_addr' = shared_data.address
  /\ UNCHANGED <<shared_data, chan, address, elapsed, sock_addr, branch,
                 success, sleep_secs, slept, sent, received, last_write,
                 probe_ms, error_of, edits>>
  /\ UNCHANGED consumerVars

\* lines 177-178: start = Instant::now(); first half of address.clone()
SamplerClone1 ==
  /\ s_pc = "clone1"
  /\ Alive
  /\ elapsed' = 0
  /\ address' = <<shared_data.address[1]>>
  /\ s_pc' = "clone2"
  /\ UNCHANGED <<shared_data, lock, chan, sock_addr, branch, success, sleep_secs, slept>>
  /\ UNCHANGED consumerVars
  /\ UNCHANGED historyVars

\* line 178: second half of address.clone()
SamplerClone2 ==
  /\ s_pc = "clone2"
  /\ Alive
  /\ address' = Append(address, shared_data.address[2])
  /\ s_pc' = "drop"
  /\ UNCHANGED <<shared_data, lock, chan, elapsed, sock_addr, branch, success,
                 sleep_secs, slept>>
  /\ UNCHANGED consumerVars
  /\ UNCHANGED historyVars

\* Variant that keeps the read guard alive to the end of the iteration.
DropSnapshotGuard_Kept(l) == l
\* line 179: drop(shared_data)
DropSnapshotGuard(l) == Release(l, "sampler")

\* lines 179-180: drop(shared_data); let mut success = false
SamplerDrop ==
  /\ s_pc = "drop"
  /\ Alive
  /\ lock' = DropSnapshotGuard(lock)
  /\ success' = FALSE
  /\ s_pc' = "resolve"
  /\ UNCHANGED <<shared_data, chan, address, elapsed, sock_addr, branch, sleep_secs, slept>>
  /\ UNCHANGED consumerVars
  /\ UNCHANGED historyVars

\* Variant that resolves the shared field as it is now, not the snapshot.
ResolveInput_Reread(snapshot, sd) == sd.address
\* The string handed to to_socket_addrs (line 181) and its first endpoint.
ResolveInput(snapshot, sd) == snapshot
FirstAddr(s) == <<"addr">> \o s

\* lines 181-183: match (address.as_str(), 0).to_socket_addrs(), addrs.next()
SamplerResolve ==
  /\ s_pc = "resolve"
  /\ Alive
  /\ \E o \in ResolveOutcomes(ResolveInput(address, shared_data)), t \in ResolveTimes :
       IF o = "some"
       THEN /\ sock_addr' = FirstAddr(ResolveInput(address, shared_data))
            /\ elapsed' = elapsed + t
            /\ branch' = "none"
            /\ s_pc' = "ping"
       ELSE /\ sock_addr' = <<>>
            /\ elapsed' = 0           \* start is not read on this path
            /\ branch' = IF o = "none" THEN "no_addr" ELSE "resolve_err"
            /\ s_pc' = "send"
  /\ UNCHANGED <<shared_data, lock, chan, address, success, sleep_secs, slept>>
  /\ UNCHANGED consumerVars
  /\ UNCHANGED historyVars

\* lines 184-187: ping(sock_addr.ip(), ...); on Ok, duration = start.elapsed():
\* from here on `elapsed` is that duration.
SamplerPing ==
  /\ s_pc = "ping"
  /\ Alive
  /\ \E ok \in BOOLEAN, t \in PingTimes :
       /\ elapsed' = IF ok THEN elapsed + t
                          ELSE 0       \* start is not read on this path
       /\ branch' = IF ok THEN "ok" ELSE "ping_err"
       /\ probe_ms' = IF ok THEN t ELSE 0
  /\ s_pc' = "send"
  /\ UNCHANGED <<shared_data, lock, chan, address, sock_addr, success, sleep_secs, slept>>
  /\ UNCHANGED consumerVars
  /\ UNCHANGED <<sent, received, cycle_base, cycle_addr, last_write, error_of, edits>>

\* The value sent on each path: lines 188, 195, 202, 209.
SampleOf(b, ms) == IF b = "ok" THEN ms ELSE NAN
\* Variant in which the empty-resolution arm sends nothing.
PathSends_NoneOnNoAddr(b, ms) ==
  IF b = "no_addr" THEN <<>> ELSE <<SampleOf(b, ms)>>
\* The values each arm of the match passes to tx.send, in order: one per arm.
PathSends(b, ms) == <<SampleOf(b, ms)>>

\* lines 188 / 195 / 202 / 209: let _ = tx.send(...)
SamplerSend ==
  /\ s_pc = "send"
  /\ Alive
  /\ chan' = chan \o PathSends(branch, elapsed)
  /\ sent' = sent \o PathSends(branch, elapsed)
  /\ s_pc' = "lock_write"
  /\ UNCHANGED <<shared_data, lock, address, elapsed, sock_addr, branch, success,
                 sleep_secs, slept>>
  /\ UNCHANGED consumerVars
  /\ UNCHANGED <<received, cycle_base, cycle_addr, last_write, probe_ms, error_of, edits>>

\* lines 189 / 196 / 203 / 210: shared_ping_data_for_thread.write().unwrap()
SamplerLockWrite ==
  /\ s_pc = "lock_write"
  /\ Alive
  /\ CanWrite(lock, Sampler)
  /\ lock' = AcquireWrite(lock, Sampler)
  /\ s_pc' = "set_error"
  /\ UNCHANGED <<shared_data, chan, address, elapsed, sock_addr, branch,
                 success, sleep_secs, slept>>
  /\ UNCHANGED consumerVars
  /\ UNCHANGED historyVars

\* Variant in which a success leaves the previous message in place.
ErrorOnSuccess_Stale(old) == old
\* The message of each path: lines 190, 197, 204, 211.
ErrorOnSuccess(old) == EmptyString
\* Variant in which a failed probe leaves the previous message in place.
ErrorMessage_SilentProbeFailure(b, snapshot, old) ==
  CASE b = "ok" -> ErrorOnSuccess(old)
    [] b = "ping_err" -> old
    [] b = "no_addr" -> <<"Could not resolve address: ">> \o snapshot
    [] b = "resolve_err" ->
         <<"Invalid address: ">> \o snapshot \o <<". Error: ", ResolveError>>
ErrorMessage(b, snapshot, old) ==
  CASE b = "ok" -> ErrorOnSuccess(old)
    [] b = "ping_err" -> <<"Ping failed: ", PingError>>
    [] b = "no_addr" -> <<"Could not resolve address: ">> \o snapshot
    [] b = "resolve_err" ->
         <<"Invalid address: ">> \o snapshot \o <<". Error: ", ResolveError>>
\* Variant that stores a whole new state built from the cycle's snapshot.
WriteError_WholeState(sd, msg, snapshot) == [address |-> snapshot, error |-> msg]
\* shared_data.error = ...: assignment to the error field only.
WriteError(sd, msg, snapshot) == [sd EXCEPT !.error = msg]

\* lines 190-192 / 197-198 / 204-205 / 211-212: assign the error, set the
\* success flag, and drop the write guard at the end of the match arm.
SamplerSetError ==
  /\ s_pc = "set_error"
  /\ Alive
  /\ shared_data' =
       WriteError(shared_data, ErrorMessage(branch, address, shared_data.error), address)
  /\ success' = (branch = "ok")
  /\ lock' = Release(lock, Sampler)
  /\ error_of' = Len(sent)
  /\ s_pc' = "pace"
  /\ UNCHANGED <<chan, address, elapsed, sock_addr, branch, sleep_secs, slept>>
  /\ UNCHANGED consumerVars
  /\ UNCHANGED <<sent, received, cycle_base, cycle_addr, last_write, probe_ms,
                 edits>>

\* Variant without the longer wait after a failure.
PaceDelay_NoBackoff(ok) == SuccessDelay
\* lines 215-219: the duration handed to thread::sleep, in seconds.
PaceDelay(ok) == IF ok THEN SuccessDelay ELSE FailureDelay

\* lines 215-219: if success { sleep(1 s) } else { sleep(2 s) }, sleep begins
SamplerPace ==
  /\ s_pc = "pace"
  /\ Alive
  /\ sleep_secs' = PaceDelay(success)
  /\ slept' = 0
  /\ s_pc' = "sleep"
  /\ UNCHANGED <<shared_data, lock, chan, address, elapsed, sock_addr, branch, success>>
  /\ UNCHANGED consumerVars
  /\ UNCHANGED historyVars

\* lines 216 / 218: one second of the sleep passes
SamplerSleepTick ==
  /\ s_pc = "sleep"
  /\ Alive
  /\ slept < sleep_secs
  /\ slept' = slept + 1
  /\ UNCHANGED <<shared_data, lock, chan, s_pc, address, elapsed, sock_addr, branch,
                 success, sleep_secs>>
  /\ UNCHANGED consumerVars
  /\ UNCHANGED historyVars

\* line 220: thread::sleep returns once the requested time has passed and the
\* loop starts over; the locals of the finished iteration go out of scope.
SamplerWake ==
  /\ s_pc = "sleep"
  /\ Alive
  /\ slept >= sleep_secs
  /\ s_pc' = "lock_read"
  /\ address' = EmptyString
  /\ sock_addr' = <<>>
  /\ branch' = "none"
  /\ success' = FALSE
  /\ sleep_secs' = 0
  /\ slept' = 0
  /\ elapsed' = 0
  /\ probe_ms' = 0
  /\ UNCHANGED <<shared_data, lock, chan>>
  /\ UNCHANGED consumerVars
  /\ UNCHANGED <<sent, received, cycle_base, cycle_addr, last_write, error_of, edits>>

\* ------------------------------------------------- consumer: PingApp::update
\* line 61: self.shared_data.read().unwrap()
ConsumerReadAddrLock ==
  /\ c_pc = "read_addr_lock"
  /\ CanRead(lock, Consumer)
  /\ lock' = AcquireRead(lock, Consumer)
  /\ c_pc' = "read_addr"
  /\ UNCHANGED <<shared_data, chan, c_address, err, ping_times, stats,
                 ping_times_updated, loss_count, total_pings>>
  /\ UNCHANGED samplerVars
  /\ UNCHANGED historyVars

\* Variant in which the read guard outlives the block.
DropAddressGuard_Kept(l) == l
\* line 63: the read guard is a local of the block and drops at its end
DropAddressGuard(l) == Release(l, Consumer)
\* lines 62-63: shared_data.address.clone(); the guard drops with the block
ConsumerReadAddr ==
  /\ c_pc = "read_addr"
  /\ c_address' = shared_data.address
  /\ err' = err
  /\ lock' = DropAddressGuard(lock)
  /\ c_pc' = "edit"
  /\ UNCHANGED <<shared_data, chan, ping_times, stats, ping_times_updated,
                 loss_count, total_pings>>
  /\ UNCHANGED samplerVars
  /\ UNCHANGED historyVars

\* line 67: ui.text_edit_singleline(&mut address).changed()
ConsumerEdit ==
  /\ c_pc = "edit"
  /\ \/ \E a \in Addresses :
          /\ edits < MaxEdits
          /\ Str(a) # c_address
          /\ c_address' = Str(a)
          /\ edits' = edits + 1
          /\ c_pc' = "write_lock"
     \/ /\ c_address' = EmptyString
        /\ edits' = edits
        /\ c_pc' = "reset"
  /\ err' = err
  /\ UNCHANGED <<shared_data, lock, chan, ping_times, stats, ping_times_updated,
                 loss_count, total_pings>>
  /\ UNCHANGED samplerVars
  /\ UNCHANGED <<sent, received, cycle_base, cycle_addr, last_write, probe_ms,
                 error_of>>

\* line 68: self.shared_data.write().unwrap()
ConsumerWriteLock ==
  /\ c_pc = "write_lock"
  /\ CanWrite(lock, Consumer)
  /\ lock' = AcquireWrite(lock, Consumer)
  /\ c_pc' = "write1"
  /\ UNCHANGED <<shared_data, chan, c_address, err, ping_times, stats,
                 ping_times_updated, loss_count, total_pings>>
  /\ UNCHANGED samplerVars
  /\ UNCHANGED historyVars

\* line 69: shared_data.address = address, first half
ConsumerWrite1 ==
  /\ c_pc = "write1"
  /\ shared_data' = [shared_data EXCEPT !.address[1] = c_address[1]]
  /\ last_write' = c_address
  /\ c_pc' = "write2"
  /\ UNCHANGED <<lock, chan, c_address, err, ping_times, stats, ping_times_updated,
                 loss_count, total_pings>>
  /\ UNCHANGED samplerVars
  /\ UNCHANGED <<sent, received, cycle_base, cycle_addr, probe_ms, error_of, edits>>

\* lines 69-70: shared_data.address = address, second half; the guard drops
ConsumerWrite2 ==
  /\ c_pc = "write2"
  /\ shared_data' = [shared_data EXCEPT !.address[2] = c_address[2]]
  /\ lock' = Release(lock, Consumer)
  /\ c_address' = EmptyString
  /\ err' = err
  /\ c_pc' = "reset"
  /\ UNCHANGED <<chan, ping_times, stats, ping_times_updated, loss_count,
                 total_pings>>
  /\ UNCHANGED samplerVars
  /\ UNCHANGED historyVars

\* Variant in which Reset leaves the flag as it was.
FlagAfterReset_Unset(old) == old
\* line 74: self.ping_times_updated = true
FlagAfterReset(old) == TRUE

\* lines 71-75: if ui.button("Reset").clicked() { clear; updated = true }
ConsumerReset ==
  /\ c_pc = "reset"
  /\ \/ /\ ping_times' = <<>>
        /\ ping_times_updated' = FlagAfterReset(ping_times_updated)
     \/ UNCHANGED <<ping_times, ping_times_updated>>
  /\ c_pc' = "err_lock"
  /\ UNCHANGED <<shared_data, lock, chan, c_address, err, stats, loss_count, total_pings>>
  /\ UNCHANGED samplerVars
  /\ UNCHANGED historyVars

\* line 76: self.shared_data.read().unwrap()
ConsumerErrLock ==
  /\ c_pc = "err_lock"
  /\ CanRead(lock, Consumer)
  /\ lock' = AcquireRead(lock, Consumer)
  /\ c_pc' = "err_read"
  /\ UNCHANGED <<shared_data, chan, c_address, err, ping_times, stats,
                 ping_times_updated, loss_count, total_pings>>
  /\ UNCHANGED samplerVars
  /\ UNCHANGED historyVars

\* lines 77-78: err = shared_data.error.clone(); err.truncate(90).  A panic
\* unwinds the UI thread, dropping the guard, and ends the process.
ConsumerErrRead ==
  /\ c_pc = "err_read"
  /\ LET shown == Truncate(Full(shared_data.error), TruncateAt)
     IN IF Panicked(shown)
        THEN /\ err' = NoDisplay
             /\ lock' = Release(lock, Consumer)
             /\ c_pc' = "panicked"
        ELSE /\ err' = shown
             /\ lock' = lock
             /\ c_pc' = "err_show"
  /\ UNCHANGED <<shared_data, chan, c_address, ping_times, stats,
                 ping_times_updated, loss_count, total_pings>>
  /\ UNCHANGED samplerVars
  /\ UNCHANGED historyVars

\* lines 79-80: err moves into the label; the guard drops with the closure
ConsumerErrShow ==
  /\ c_pc = "err_show"
  /\ err' = NoDisplay
  /\ lock' = Release(lock, Consumer)
  /\ c_pc' = "drain"
  /\ UNCHANGED <<shared_data, chan, c_address, ping_times, stats,
                 ping_times_updated, loss_count, total_pings>>
  /\ UNCHANGED samplerVars
  /\ UNCHANGED historyVars

\* Variant that takes the newest value first.
TryRecv_Newest(ch) == [value |-> ch[Len(ch)], rest |-> SubSeq(ch, 1, Len(ch) - 1)]
\* mpsc::Receiver::try_recv on a non-empty channel: the oldest value.
TryRecv(ch) == [value |-> Head(ch), rest |-> Tail(ch)]
\* Variant in which the drain loop may end with samples left in the feed.
TryRecvIsEmpty_Always(ch) == TRUE
\* mpsc::Receiver::try_recv returns Err(TryRecvError::Empty)
TryRecvIsEmpty(ch) == ch = <<>>
\* Variant that numbers samples by the attempt counter.
NextTime_FromTotal(pt, total) == total
\* line 84: let time = self.ping_times.len() as f64
NextTime(pt, total) == Len(pt)

\* lines 83-94: one iteration of `while let Ok(ping_time) = self.rx.try_recv()`
ConsumerDrain ==
  /\ c_pc = "drain"
  /\ ~TryRecvIsEmpty(chan)
  /\ LET ping_time == TryRecv(chan).value
         time == NextTime(ping_times, total_pings)
     IN /\ chan' = TryRecv(chan).rest
        /\ received' = Append(received, ping_time)
        /\ total_pings' = total_pings + 1
        /\ IF IsNan(ping_time)
           THEN /\ loss_count' = loss_count + 1
                /\ ping_times' = Append(ping_times, <<time, NAN>>)
           ELSE /\ loss_count' = loss_count
                /\ ping_times' = Append(ping_times, <<time, ping_time>>)
        /\ ping_times_updated' = TRUE
  /\ UNCHANGED <<shared_data, lock, c_pc, c_address, err, stats>>
  /\ UNCHANGED samplerVars
  /\ UNCHANGED <<sent, cycle_base, cycle_addr, last_write, probe_ms, error_of, edits>>

\* line 83: try_recv returns Err(Empty) and the loop ends
ConsumerDrainEnd ==
  /\ c_pc = "drain"
  /\ TryRecvIsEmpty(chan)
  /\ c_pc' = "stats"
  /\ UNCHANGED <<shared_data, lock, chan, c_address, err, ping_times, stats,
                 ping_times_updated, loss_count, total_pings>>
  /\ UNCHANGED samplerVars
  /\ UNCHANGED historyVars

\* lines 97-101 and the end of the frame (lines 144-152)
ConsumerStats ==
  /\ c_pc = "stats"
  /\ IF ping_times_updated
     THEN /\ stats' = calculate_ping_stats(ping_times)
          /\ ping_times_updated' = FALSE
     ELSE UNCHANGED <<stats, ping_times_updated>>
  /\ c_pc' = "read_addr_lock"
  /\ UNCHANGED <<shared_data, lock, chan, c_address, err, ping_times, loss_count,
                 total_pings>>
  /\ UNCHANGED samplerVars
  /\ UNCHANGED historyVars

\* ------------------------------------------------------------ specification
Next ==
  \/ SamplerLockRead
  \/ SamplerClone1
  \/ SamplerClone2
  \/ SamplerDrop
  \/ SamplerResolve
  \/ SamplerPing
  \/ SamplerSend
  \/ SamplerLockWrite
  \/ SamplerSetError
  \/ SamplerPace
  \/ SamplerSleepTick
  \/ SamplerWake
  \/ ConsumerReadAddrLock
  \/ ConsumerReadAddr
  \/ ConsumerEdit
  \/ ConsumerWriteLock
  \/ ConsumerWrite1
  \/ ConsumerWrite2
  \/ ConsumerReset
  \/ ConsumerErrLock
  \/ ConsumerErrRead
  \/ ConsumerErrShow
  \/ ConsumerDrain
  \/ ConsumerDrainEnd
  \/ ConsumerStats

Spec == Init /\ [][Next]_vars

\* ------------------------------------------------------------ fair scheduling
\* The steps of the sampler thread (lines 175-220).
SamplerStep ==
  \/ SamplerLockRead
  \/ SamplerClone1
  \/ SamplerClone2
  \/ SamplerDrop
  \/ SamplerResolve
  \/ SamplerPing
  \/ SamplerSend
  \/ SamplerLockWrite
  \/ SamplerSetError
  \/ SamplerPace
  \/ SamplerSleepTick
  \/ SamplerWake
\* The steps of the UI thread: PingApp::update, called once per frame.
ConsumerStep ==
  \/ ConsumerReadAddrLock
  \/ ConsumerReadAddr
  \/ ConsumerEdit
  \/ ConsumerWriteLock
  \/ ConsumerWrite1
  \/ ConsumerWrite2
  \/ ConsumerReset
  \/ ConsumerErrLock
  \/ ConsumerErrRead
  \/ ConsumerErrShow
  \/ ConsumerDrain
  \/ ConsumerDrainEnd
  \/ ConsumerStats
\* Each thread keeps running, every resolve, ping and sleep call returns, and
\* a thread that asks for the lock again and again while it is free again and
\* again gets it: guards are held only for a copy or an assignment, and each
\* thread sleeps between two requests (6 ms or more per frame, lines 144-148;
\* 1 s or more per cycle, lines 215-219) without holding one.
Fairness ==
  /\ SF_vars(SamplerStep)
  /\ SF_vars(ConsumerStep)
SpecFair == Init /\ [][Next]_vars /\ Fairness

\* ------------------------------------- calculate_ping_stats on any series
\* Values a series entry can hold in SpecStats.
StatValues == {NAN, 10, 25, 30}
\* The series PingApp can hold: entry i (from 0) is [i, value].
SeriesOfLen(n) ==
  {[i \in 1..n |-> <<i - 1, v[i]>>] : v \in [1..n -> StatValues]}
AllSeries == UNION {SeriesOfLen(n) : n \in 0..MaxLen}
LostIn(pt) == Cardinality({i \in 1..Len(pt) : IsNan(pt[i][2])})

\* PingApp holding an arbitrary series, about to run lines 97-101.
InitStats ==
  /\ shared_data = [address |-> Str(DefaultAddress), error |-> EmptyString]
  /\ lock = [readers |-> {}, writer |-> NoWriter]
  /\ chan = <<>>
  /\ s_pc = "lock_read"
  /\ address = EmptyString
  /\ elapsed = 0
  /\ sock_addr = <<>>
  /\ branch = "none"
  /\ success = FALSE
  /\ sleep_secs = 0
  /\ slept = 0
  /\ c_pc = "stats"
  /\ c_address = EmptyString
  /\ err = NoDisplay
  /\ ping_times \in AllSeries
  /\ stats = None
  /\ ping_times_updated = TRUE
  /\ loss_count = LostIn(ping_times)
  /\ total_pings = Len(ping_times)
  /\ sent = <<>>
  /\ received = <<>>
  /\ cycle_base = 0
  /\ cycle_addr = Str(DefaultAddress)
  /\ last_write = Str(DefaultAddress)
  /\ probe_ms = 0
  /\ error_of = 0
  /\ edits = 0

NextStats == ConsumerStats

SpecStats == InitStats /\ [][NextStats]_vars

\* ------------------------------------------------------------------ claims
InCycleBeforeSend == s_pc \in {"clone1", "clone2", "drop", "resolve", "ping", "send"}
InCycleAfterSend == s_pc \in {"lock_write", "set_error", "pace", "sleep"}
FailureBranches == {"ping_err", "no_addr", "resolve_err"}
WrittenAddresses == {Str(a) : a \in Addresses}

\* C1: every sampler cycle sends exactly one value, whatever its outcome:
\* from the address read up to the send nothing has been sent, from the send
\* to the pacing sleep exactly one value has, and that value is NAN on the
\* three failure paths and the measured duration on the success path.
C1_OneSendPerCycle ==
  /\ InCycleBeforeSend => Len(sent) = cycle_base
  /\ InCycleAfterSend =>
       /\ Len(sent) = cycle_base + 1
       /\ branch \in FailureBranches \cup {"ok"}
       /\ branch \in FailureBranches => IsNan(sent[Len(sent)])
       /\ branch = "ok" =>
            /\ ~IsNan(sent[Len(sent)])
            /\ sent[Len(sent)] = elapsed
C1_Witness ==
  /\ s_pc = "sleep"
  /\ branch = "no_addr"
  /\ Len(sent) = 2
  /\ ~IsNan(sent[1])
  /\ IsNan(sent[2])

\* C2: a clicked Reset leaves the series empty and both loss counters at 0,
\* and the next appended sample gets index 0.  (Between the Reset of line 71
\* and the drain of the same frame, ping_times_updated is set exactly when
\* Reset was clicked in this frame.)
C2_ResetClearsSeriesAndCounters ==
  (c_pc \in {"err_lock", "err_read"} /\ ping_times_updated) =>
     /\ ping_times = <<>>
     /\ NextTime(ping_times, total_pings) = 0
     /\ loss_count = 0
     /\ total_pings = 0

\* C3: the series is gapless: its i-th entry, counting from 0, has index i,
\* after any interleaving of drains and resets.
C3_GaplessSeries ==
  \A i \in 1..Len(ping_times) : ping_times[i][1] = i - 1
C3_Witness ==
  /\ Len(received) = 2
  /\ Len(ping_times) = 1
  /\ ping_times[1][1] = 0

\* C4: the consumer receives the samples in the order they were sent, none
\* lost, duplicated or reordered: what it has appended since process start,
\* followed by what is still in the channel, is what the sampler has sent.
C4_FifoDelivery ==
  /\ Len(received) <= Len(sent)
  /\ \A i \in 1..Len(received) : received[i] = sent[i]
  /\ received \o chan = sent
C4_Witness ==
  /\ Len(received) = 2
  /\ received[1] # received[2]
  /\ ~IsNan(received[1])
  /\ ~IsNan(received[2])

\* Reference definitions for C5: the non-lost values of a series.
Measured(pt) == {i \in 1..Len(pt) : ~IsNan(pt[i][2])}
RECURSIVE SumOver(_, _)
SumOver(pt, I) ==
  IF I = {} THEN 0
  ELSE LET i == CHOOSE j \in I : TRUE IN pt[i][2] + SumOver(pt, I \ {i})
MeetsContract(r, pt) ==
  /\ (r = None) <=> (Measured(pt) = {})
  /\ r # None =>
       /\ \E i \in Measured(pt) : r[1] = pt[i][2]
       /\ \A i \in Measured(pt) : r[1] <= pt[i][2]
       /\ \E i \in Measured(pt) : r[2] = pt[i][2]
       /\ \A i \in Measured(pt) : r[2] >= pt[i][2]
       /\ r[3][2] > 0
       /\ r[3][1] * Cardinality(Measured(pt)) = SumOver(pt, Measured(pt)) * r[3][2]

\* C5: calculate_ping_stats returns None exactly when the series has no
\* non-lost sample, and otherwise the minimum, the maximum and the
\* arithmetic mean of the non-lost values only.
C5_StatsContract ==
  /\ MeetsContract(calculate_ping_stats(ping_times), ping_times)
  /\ c_pc = "read_addr_lock" => MeetsContract(stats, ping_times)
C5_Witness ==
  /\ c_pc = "read_addr_lock"
  /\ Len(ping_times) = 3
  /\ LostIn(ping_times) = 1
  /\ stats # None
  /\ stats[1] < stats[2]
  /\ stats = <<10, 25, <<35, 2>>>>

\* C6: in every state the lost count is at most the attempts, equals the
\* number of lost entries of the current series, and the attempts equal the
\* length of the current series; lost entries do not change the statistics.
C6_CountersMatchSeries ==
  /\ loss_count <= total_pings
  /\ loss_count = LostIn(ping_times)
  /\ total_pings = Len(ping_times)
  /\ calculate_ping_stats(ping_times) =
       calculate_ping_stats(SelectSeq(ping_times, LAMBDA e : ~IsNan(e[2])))

\* C7: a cycle resolves and probes the address it snapshotted at its start,
\* whatever the consumer writes meanwhile; the snapshot is the consumer's
\* latest write at the time of the read, and always a value written in full.
C7_SnapshotUsed ==
  /\ s_pc \in {"clone1", "clone2", "drop"} =>
       /\ shared_data.address = last_write
       /\ cycle_addr = last_write
  /\ (s_pc = "drop" \/ s_pc = "resolve" \/ s_pc = "ping" \/ InCycleAfterSend
        \/ s_pc = "send") =>
       /\ address = cycle_addr
       /\ address \in WrittenAddresses
  /\ sock_addr # <<>> => sock_addr = FirstAddr(cycle_addr)
C7_Witness ==
  /\ s_pc = "ping"
  /\ address = Str("8.8.8.8")
  /\ shared_data.address = Str("1.1.1.1")
  /\ sock_addr = FirstAddr(Str("8.8.8.8"))

\* C8: the address field holds the consumer's most recent write (outside
\* the write itself); sampler steps leave the address unchanged and consumer
\* steps leave the error unchanged.
AddressIsLastWrite == c_pc # "write2" => shared_data.address = last_write
FieldFrames ==
  /\ s_pc' # s_pc => shared_data'.address = shared_data.address
  /\ s_pc' = s_pc => shared_data'.error = shared_data.error
C8_LastWriteWins == [](AddressIsLastWrite) /\ [][FieldFrames]_vars
C8_Witness ==
  /\ s_pc = "pace"
  /\ shared_data.error # EmptyString
  /\ address = Str("8.8.8.8")
  /\ shared_data.address = Str("not a real host")
  /\ last_write = Str("not a real host")

\* C9: while the sampler resolves, probes or sleeps it holds no guard,
\* read or write, on the shared state.
C9_NoGuardWhileBlocking ==
  s_pc \in {"resolve", "ping", "pace", "sleep"} => ~Holds(lock, Sampler)
C9_Witness ==
  /\ s_pc = "ping"
  /\ lock.writer = Consumer

\* C10: when the pacing sleep starts the error field is empty if and only
\* if the cycle succeeded; a failed cycle has stored its own non-empty
\* message.
C10_ErrorReflectsCycle ==
  s_pc = "sleep" =>
    /\ (shared_data.error = EmptyString) <=> success
    /\ success <=> (branch = "ok")
    /\ ~success =>
         /\ shared_data.error = ErrorMessage(branch, address, EmptyString)
         /\ Len(shared_data.error) > 0
C10_Witness ==
  /\ s_pc = "sleep"
  /\ success
  /\ Len(sent) = 2
  /\ IsNan(sent[1])
  /\ shared_data.error = EmptyString


\* The series holding the values of pt in the order p[1], p[2], ...
IndexPermutations(n) ==
  {p \in [1..n -> 1..n] : \A i, j \in 1..n : p[i] = p[j] => i = j}
Permuted(pt, p) == [i \in 1..Len(pt) |-> <<i - 1, pt[p[i]][2]>>]

\* C12: calculate_ping_stats returns the same best, worst and average for
\* every permutation of the values of the series, and the statistics step
\* stores that result for the series it was given.
C12_OrderIndependent ==
  /\ \A p \in IndexPermutations(Len(ping_times)) :
       calculate_ping_stats(Permuted(ping_times, p)) = calculate_ping_stats(ping_times)
  /\ c_pc = "read_addr_lock" =>
       \A p \in IndexPermutations(Len(ping_times)) :
         stats = calculate_ping_stats(Permuted(ping_times, p))
C12_Witness ==
  /\ c_pc = "read_addr_lock"
  /\ Len(ping_times) = 3
  /\ ping_times[1][2] = 30
  /\ ping_times[2][2] = 10
  /\ ping_times[3][2] = 25
  /\ stats = <<10, 30, <<65, 3>>>>

\* C17: whenever the updated flag is down the cached statistics are those
\* of the current series, and the flag is down at the end of every tick;
\* after a Reset with nothing drained since, the cache is None.
C17_CacheFresh ==
  /\ ~ping_times_updated => stats = calculate_ping_stats(ping_times)
  /\ c_pc = "read_addr_lock" => ~ping_times_updated
  /\ (c_pc = "read_addr_lock" /\ ping_times = <<>>) => stats = None
C17_Witness ==
  /\ c_pc = "read_addr_lock"
  /\ Len(received) = 1
  /\ ~IsNan(received[1])
  /\ ping_times = <<>>
  /\ stats = None


\* C13: the pacing wait depends only on the cycle's outcome, 1 second after
\* a success and 2 seconds after a failure at resolution or probing, the
\* failure wait is not the shorter one, and the sampler leaves the sleep
\* (to read the address again) only when the whole wait has passed.
PacingByOutcome ==
  s_pc = "sleep" =>
    /\ branch = "ok" => sleep_secs = 1
    /\ branch \in FailureBranches => sleep_secs = 2
    /\ branch \in FailureBranches \cup {"ok"}
    /\ slept <= sleep_secs
WaitElapsedBeforeNextCycle ==
  (s_pc = "sleep" /\ s_pc' # "sleep") => (slept = sleep_secs /\ slept' = 0)
C13_Pacing ==
  /\ [](PacingByOutcome /\ FailureDelay >= SuccessDelay)
  /\ [][WaitElapsedBeforeNextCycle]_vars
C13_Witness ==
  /\ s_pc = "sleep"
  /\ branch = "resolve_err"
  /\ sleep_secs = 2
  /\ slept = 2
  /\ Len(sent) = 2
  /\ ~IsNan(sent[1])

\* C14: the duration sent by a successful cycle is the time of the probe
\* call alone, not including the time of the resolution.
C14_TimedWindowIsProbeOnly ==
  (InCycleAfterSend /\ branch = "ok") => sent[Len(sent)] = probe_ms


\* The class a stored message belongs to, by its leading text.
MessageClass(msg) ==
  CASE msg = EmptyString -> "none"
    [] msg[1] = "Invalid address: " -> "InvalidAddress"
    [] msg[1] = "Could not resolve address: " -> "ResolutionFailed"
    [] msg[1] = "Ping failed: " -> "ProbeFailed"
\* The class the taxonomy gives a failed cycle: by where it failed.
ClaimedClass(snapshot, b) ==
  CASE b = "ping_err" -> "ProbeFailed"
    [] b \in {"no_addr", "resolve_err"} /\ snapshot \in IpLiterals \cup HostNames ->
         "ResolutionFailed"
    [] OTHER -> "InvalidAddress"

\* C15: a failed cycle records a message of the class of its failure:
\* InvalidAddress for a string that is no resolvable form, ResolutionFailed
\* for a well-formed name for which the resolver returns no endpoint,
\* ProbeFailed for a failed probe of the first endpoint.
C15_FailureClassified ==
  (s_pc \in {"pace", "sleep"} /\ branch \in FailureBranches) =>
     /\ MessageClass(shared_data.error) = ClaimedClass(address, branch)
     /\ branch = "ping_err" => sock_addr = FirstAddr(address)


\* C20: the displayed error is a copy cut to at most 90 bytes; taking and
\* cutting the copy never fails and leaves the stored error and address as
\* they were.
C20_DisplayTruncationSafe ==
  /\ c_pc # "panicked"
  /\ c_pc = "err_show" =>
       /\ err.bytes <= TruncateAt
       /\ err.text = shared_data.error
       /\ err.bytes = IF ByteLen(shared_data.error) < TruncateAt
                      THEN ByteLen(shared_data.error) ELSE TruncateAt


\* The consumer holds the read guard and is reading, or has just read, the
\* error field (lines 76-79).
ReadingError == c_pc \in {"err_read", "err_show"}
\* The error field holds the outcome of cycle k: empty after a success, a
\* message after a failure.
ReflectsCycle(k) == (shared_data.error = EmptyString) <=> ~IsNan(sent[k])

SamplerWithinBound == s_pc = "lock_read" => Len(sent) < MaxCycles
\* A thread is waiting for a guard the lock cannot grant now.
SamplerWaits ==
  \/ s_pc = "lock_read" /\ ~CanRead(lock, Sampler)
  \/ s_pc = "lock_write" /\ ~CanWrite(lock, Sampler)
ConsumerWaits ==
  \/ c_pc \in {"read_addr_lock", "err_lock"} /\ ~CanRead(lock, Consumer)
  \/ c_pc = "write_lock" /\ ~CanWrite(lock, Consumer)

\* C11: the sampler has no terminal state: after every cycle, whatever its
\* outcome, it can take its next step or waits for a guard the consumer
\* holds; no failure outcome halts it.
C11_SamplerNeverHalts ==
  SamplerWithinBound => (ENABLED SamplerStep \/ (Alive /\ SamplerWaits))


\* The last entry of the series is sample number Len(ping_times) - 1 and
\* carries value v.
LastEntryIs(pt, v) == Len(pt) > 0 /\ pt[Len(pt)] = <<Len(pt) - 1, v>>

\* C16: a drain never waits: while it runs it can take a step whatever the
\* sampler is doing and whoever holds the lock; each step moves the oldest
\* sample of the feed to the end of the series; the drain ends only on an
\* empty feed, with every sample sent so far received; and while the
\* consumer keeps ticking it again and again has received every sample sent.
C16_DrainToEmpty ==
  /\ [](c_pc = "drain" => ENABLED (ConsumerDrain \/ ConsumerDrainEnd))
  /\ [][received' # received =>
          /\ c_pc = "drain" /\ c_pc' = "drain"
          /\ chan # <<>>
          /\ chan' = Tail(chan)
          /\ received' = Append(received, Head(chan))
          /\ Len(ping_times') = Len(ping_times) + 1
          /\ LastEntryIs(ping_times', Head(chan))]_vars
  /\ [][(c_pc = "drain" /\ c_pc' # "drain") =>
          /\ chan = <<>>
          /\ received = sent
          /\ UNCHANGED <<chan, received, ping_times>>]_vars
  /\ []<>(received = sent \/ ~Alive)
\* A drain has just ended on an empty feed, one sample appended, with the
\* sampler in the middle of the next cycle's resolve.
C16_Witness ==
  /\ c_pc = "stats"
  /\ chan = <<>>
  /\ Len(received) = 1
  /\ LastEntryIs(ping_times, received[1])
  /\ s_pc = "resolve"
  /\ Len(sent) = 1

\* A thread is at a lock request.
SamplerRequests == s_pc \in {"lock_read", "lock_write"}
ConsumerRequests == c_pc \in {"read_addr_lock", "write_lock", "err_lock"}

\* C18: no thread requests the lock while it holds a guard; a thread that
\* holds a guard has a step to take that does not depend on the other
\* thread; the two threads are never both waiting; and under fair scheduling
\* no request stays pending for ever.
C18_NoLockDeadlock ==
  /\ [](SamplerRequests => ~Holds(lock, Sampler))
  /\ [](ConsumerRequests => ~Holds(lock, Consumer))
  /\ [](Holds(lock, Sampler) =>
          /\ s_pc \in {"clone1", "clone2", "drop", "set_error"}
          /\ ~Alive \/ ENABLED SamplerStep)
  /\ [](Holds(lock, Consumer) =>
          /\ c_pc \in {"read_addr", "write1", "write2", "err_read", "err_show"}
          /\ ENABLED ConsumerStep)
  /\ [](~(SamplerWaits /\ ConsumerWaits))
  /\ []<>(~(SamplerRequests /\ SamplerWithinBound) \/ ~Alive)
  /\ []<>(~ConsumerRequests \/ ~Alive)
\* The sampler waits for the write guard while the consumer reads the error.
C18_Witness ==
  /\ s_pc = "lock_write"
  /\ c_pc = "err_show"
  /\ Holds(lock, Consumer)
  /\ SamplerWaits

====
